---- MODULE Spec2Model ----
(***************************************************************************)
(* Model of the semantic index engine of ai_server.py: the periodic        *)
(* rebuild thread (rebuild_index / periodic_rebuild), the module globals   *)
(* index and metadata it shares with the /ask and /chat handlers, the      *)
(* durable files radar_index.faiss / radar_metadata.json, and the startup  *)
(* load of the __main__ block.                                             *)
(*                                                                         *)
(* Threads interleave at the granularity of accesses to the shared         *)
(* globals (CPython switches threads between bytecodes; index.add and      *)
(* list.extend are single C calls).                                        *)
(***************************************************************************)
EXTENDS Integers, Sequences, FiniteSets, TLC

VARIABLES
    index,            \* global index     : [gen, vecs]   (gen is a ghost tag of the object)
    metadata,         \* global metadata  : [gen, items]
    diskIndex,        \* INDEX_FILE       : [st, gen, data]
    diskMeta,         \* META_FILE        : [st, gen, data]
    mainPc,           \* __main__ : "load" | "serving"
    rbPc,             \* rebuild thread: "start", a line of rebuild_index, "sleep", "dead"
    summaries,        \* rebuild_index local
    embeddings_list,  \* rebuild_index local
    rbI,              \* position of the "for msg in summaries" loop
    cycle,            \* ghost: number of rebuild_index calls started so far
    saveFailed,       \* ghost: a durable write raised in the current cycle
    published,        \* ghost: a non-empty snapshot was visible at the end of a cycle or load
    restarts,         \* ghost: number of process restarts so far
    feed,             \* the two feed files extract_semantic_messages was given: <<a, v>>
    bridge,           \* visualizer_bridge.py: the VDL2 file and vdl2_file_listener's state
    hPc,              \* request handler position
    hReq,             \* request parameters
    hEmb,             \* query_emb
    hK,               \* search_k
    hCands,           \* zip(scores[0], idxs[0])
    hJ,               \* position of the filter loop
    hResults,         \* filtered_results / context_messages
    hGen,             \* ghost: the objects the handler read: [chk, idx]
    hResp             \* the response being returned

vars == << index, metadata, diskIndex, diskMeta, mainPc, rbPc, summaries,
           embeddings_list, rbI, cycle, saveFailed, published, restarts, feed, bridge,
           hPc, hReq, hEmb, hK, hCands, hJ, hResults, hGen, hResp >>

rbVars   == << rbPc, summaries, embeddings_list, rbI, cycle, saveFailed >>
hVars    == << hPc, hReq, hEmb, hK, hCands, hJ, hResults, hGen, hResp >>
diskVars == << diskIndex, diskMeta >>

(***************************************************************************)
(* Bounds of the model.                                                    *)
(***************************************************************************)
MaxCycles   == 2
MaxRestarts == 1

(***************************************************************************)
(* Program constants.                                                      *)
(***************************************************************************)
EMBED_DIM == 768

Min(a, b) == IF a < b THEN a ELSE b

(***************************************************************************)
(* JSON values as the json module returns them.                            *)
(*   kind "str"/"num"/"null" carry their text in field s,                  *)
(*   kind "list" its items, kind "obj" its key/value pairs in order.       *)
(***************************************************************************)
JStr(s)   == [kind |-> "str",  s |-> s,      items |-> << >>, kv |-> << >>]
JNum(s)   == [kind |-> "num",  s |-> s,      items |-> << >>, kv |-> << >>]
JNull     == [kind |-> "null", s |-> "None", items |-> << >>, kv |-> << >>]
JList(xs) == [kind |-> "list", s |-> "",     items |-> xs,    kv |-> << >>]
JObj(kv)  == [kind |-> "obj",  s |-> "",     items |-> << >>, kv |-> kv]

HasKey(o, k) == \E i \in DOMAIN o.kv : o.kv[i][1] = k

\* dict.get(k, default)
Get(o, k, default) ==
    IF HasKey(o, k)
    THEN o.kv[CHOOSE i \in DOMAIN o.kv : o.kv[i][1] = k][2]
    ELSE default

\* str.strip() on the flight ids the feeds carry (dump1090 pads callsigns to 8 characters)
Strip(s) ==
    CASE s = "AAL1    " -> "AAL1"
      [] s = "UAL2    " -> "UAL2"
      [] OTHER          -> s

\* how an f-string renders a value
Render(v) ==
    CASE v.kind \in {"str", "num", "null"} -> v.s
      [] v.kind = "list" -> "[...]"
      [] OTHER           -> "{...}"

(***************************************************************************)
(* The two source files.  A file is [st |-> "missing"] or                  *)
(* [st |-> "text", raw |-> "" | "garbage" | "json", json |-> value].       *)
(***************************************************************************)
FileMissing    == [st |-> "missing", raw |-> "",        json |-> JNull]
FileEmpty      == [st |-> "text",    raw |-> "",        json |-> JNull]
FileGarbage    == [st |-> "text",    raw |-> "garbage", json |-> JNull]
FileJson(v)    == [st |-> "text",    raw |-> "json",    json |-> v]

Ac1 == JObj(<< <<"flight", JStr("AAL1    ")>>, <<"hex", JStr("a1b2c3")>>,
               <<"alt_baro", JNum("35000")>>,  <<"gs", JNum("450")>>,
               <<"lat", JNum("30.1")>>,        <<"lon", JNum("-87.2")>> >>)
Ac2 == JObj(<< <<"hex", JStr("d4e5f6")>>, <<"alt_baro", JNum("12000")>> >>)
Msg1 == JObj(<< <<"vdl2", JObj(<< <<"acars",
               JObj(<< <<"flight", JStr("UAL2    ")>>, <<"msg_text", JStr("FUEL STATUS 12.4")>> >>)>> >>)>> >>)

\* what the rebuild thread may find in ADS_B_FILE and VDL2_FILE at a tick
AdsbInputs ==
    << FileMissing,
       FileGarbage,
       FileJson(JObj(<< <<"aircraft", JList(<< Ac1 >>)>> >>)) >>

Vdl2Inputs ==
    << FileMissing,
       FileEmpty,
       FileJson(JList(<< Msg1 >>)) >>

\* further entries a feed file may hold
Ac3 == JObj(<< <<"flight", JStr("DAL3")>>,    <<"alt_baro", JNum("8000")>>,
               <<"gs", JNum("250")>>,         <<"lat", JNum("31.0")>>,
               <<"lon", JNum("-86.5")>> >>)
AcNullFlight == JObj(<< <<"flight", JNull>>, <<"hex", JStr("0a0b0c")>> >>)
MsgFlat == JObj(<< <<"acars", JObj(<< <<"flight", JStr("DAL3")>> >>)>> >>)
MsgBadAcars == JObj(<< <<"vdl2", JObj(<< <<"acars", JStr("n/a")>> >>)>> >>)

\* the contents of ADS_B_FILE that extract_semantic_messages is examined on
WideAdsb ==
    << FileMissing,
       FileEmpty,
       FileGarbage,
       FileJson(JList(<< Ac1 >>)),
       FileJson(JObj(<< <<"now", JNum("1700000000")>> >>)),
       FileJson(JObj(<< <<"aircraft", JList(<< Ac1 >>)>> >>)),
       FileJson(JObj(<< <<"aircraft", JList(<< Ac1, Ac2, Ac3 >>)>> >>)),
       FileJson(JObj(<< <<"aircraft", JList(<< AcNullFlight, Ac1 >>)>> >>)),
       FileJson(JObj(<< <<"aircraft", JList(<< Ac1, JStr("oops"), Ac3 >>)>> >>)) >>

\* the contents of VDL2_FILE that extract_semantic_messages is examined on
WideVdl2 ==
    << FileMissing,
       FileEmpty,
       FileGarbage,
       FileJson(JNum("42")),
       FileJson(Msg1),
       FileJson(JList(<< Msg1, MsgFlat >>)),
       FileJson(JList(<< MsgBadAcars, Msg1 >>)),
       FileJson(JList(<< Msg1, JNum("7"), MsgFlat >>)) >>

(***************************************************************************)
(* extract_semantic_messages.  A summary is the tuple of the pieces the    *)
(* f-string joins.  An exception inside a source's try block ends that     *)
(* source; what was appended before it stays in summaries.                 *)
(***************************************************************************)
\* line 41: a.get("flight", "unknown").strip() raises unless the value is a str
AdsbEntryRaises(a) ==
    \/ a.kind # "obj"
    \/ Get(a, "flight", JStr("unknown")).kind # "str"

\* lines 41-47
AdsbSummary(a) ==
    << "ADS-B",
       Strip(Get(a, "flight", JStr("unknown")).s),
       Render(Get(a, "hex", JStr(""))),
       Render(Get(a, "alt_baro", JStr("unknown"))),
       Render(Get(a, "gs", JStr("unknown"))),
       Render(Get(a, "lat", JStr("?"))),
       Render(Get(a, "lon", JStr("?"))) >>

RECURSIVE AdsbLoop(_, _)
AdsbLoop(entries, acc) ==
    IF entries = << >> THEN acc
    ELSE IF AdsbEntryRaises(Head(entries)) THEN acc
    ELSE AdsbLoop(Tail(entries), Append(acc, AdsbSummary(Head(entries))))

\* lines 37-49
AdsbPart(file) ==
    IF file.st = "missing" \/ file.raw # "json" THEN << >>
    ELSE IF file.json.kind # "obj" THEN << >>
    ELSE LET adsb == Get(file.json, "aircraft", JList(<< >>))
         IN  IF adsb.kind # "list" THEN << >> ELSE AdsbLoop(adsb.items, << >>)

\* lines 71-73
Vdl2EntryRaises(entry) ==
    \/ entry.kind # "obj"
    \/ Get(entry, "vdl2", entry).kind # "obj"
    \/ Get(Get(entry, "vdl2", entry), "acars", JObj(<< >>)).kind # "obj"
    \/ Get(Get(Get(entry, "vdl2", entry), "acars", JObj(<< >>)),
           "flight", JStr("unknown")).kind # "str"

\* lines 71-75
Vdl2Summary(entry) ==
    LET v     == Get(entry, "vdl2", entry)
        acars == Get(v, "acars", JObj(<< >>))
    IN  << "ACARS",
           Strip(Get(acars, "flight", JStr("unknown")).s),
           Render(Get(acars, "msg_text", JStr("no message"))) >>

RECURSIVE Vdl2Loop(_, _)
Vdl2Loop(entries, acc) ==
    IF entries = << >> THEN acc
    ELSE IF Vdl2EntryRaises(Head(entries)) THEN acc
    ELSE Vdl2Loop(Tail(entries), Append(acc, Vdl2Summary(Head(entries))))

\* lines 52-77
Vdl2Part(file) ==
    IF file.st = "missing" \/ file.raw # "json" THEN << >>
    ELSE IF file.json.kind = "obj"  THEN Vdl2Loop(<< file.json >>, << >>)
    ELSE IF file.json.kind = "list" THEN Vdl2Loop(file.json.items, << >>)
    ELSE << >>

\* mutant of extract_semantic_messages: one try block around both sources, so that
\* an unreadable ADS-B file ends the function
extract_semantic_messagesOneTry(adsbFile, vdl2File) ==
    IF adsbFile.st = "missing" \/ adsbFile.raw # "json"
    THEN << >>
    ELSE AdsbPart(adsbFile) \o Vdl2Part(vdl2File)

extract_semantic_messages(adsbFile, vdl2File) ==
    AdsbPart(adsbFile) \o Vdl2Part(vdl2File)

(***************************************************************************)
(* Embeddings.  A vector is [dim, ang, unit, src]: its dimension, its      *)
(* direction (one of eight directions 45 degrees apart, 0..7), whether it  *)
(* has unit L2 norm, and (ghost) the text it is the embedding of.          *)
(***************************************************************************)
\* the direction the embedding provider gives a text: a fixed function of the text
ProviderAngle(text) ==
    CASE text[1] = "ACARS"                     -> 0
      [] text = << "QUERY", "acars messages" >> -> 0
      [] text[1] = "ADS-B" /\ text[2] = "AAL1" -> 2
      [] text[1] = "ADS-B"                     -> 3
      [] OTHER                                 -> 1

\* line 26: the provider's raw answer of dimension d (not normalized)
ProviderEmbedding(text, d) ==
    [dim |-> d, ang |-> ProviderAngle(text), unit |-> FALSE, src |-> text]

\* faiss.normalize_L2
normalize_L2(v) == [v EXCEPT !.unit = TRUE]

\* mutant of get_embedding: line 29 (faiss.normalize_L2) left out
get_embeddingRaw(text, d) == ProviderEmbedding(text, d)

\* lines 24-31
get_embedding(text, d) == normalize_L2(ProviderEmbedding(text, d))

\* the dimensions the provider may answer with: the configured one, or another
ProviderDims == {EMBED_DIM, EMBED_DIM - 256}

(***************************************************************************)
(* The vector index (faiss.IndexFlatIP).  Scores are inner products times  *)
(* 100; the cosine of k * 45 degrees is rounded to two decimals.           *)
(***************************************************************************)
Cos100(k) ==
    CASE k = 0 -> 100
      [] k \in {1, 7} -> 71
      [] k \in {2, 6} -> 0
      [] k \in {3, 5} -> -71
      [] OTHER -> -100

\* the score faiss reports for a slot it could not fill (-3.4028235e+38)
NoScore == -1000000
NoResult == [score |-> NoScore, idx |-> -1, src |-> << >>]

InnerProduct(q, v) ==
    LET c == Cos100((q.ang - v.ang + 8) % 8)
    IN  c * (IF q.unit THEN 1 ELSE 2) * (IF v.unit THEN 1 ELSE 2)

\* the best remaining position: highest score, lowest position among equals
Best(q, vecs, left) ==
    CHOOSE i \in left :
        \A j \in left :
            \/ InnerProduct(q, vecs[i]) > InnerProduct(q, vecs[j])
            \/ InnerProduct(q, vecs[i]) = InnerProduct(q, vecs[j]) /\ i <= j

RECURSIVE TopK(_, _, _, _)
TopK(q, vecs, left, k) ==
    IF k <= 0 THEN << >>
    ELSE IF left = {} THEN << NoResult >> \o TopK(q, vecs, left, k - 1)
    ELSE LET b == Best(q, vecs, left)
         IN  << [score |-> InnerProduct(q, vecs[b]), idx |-> b - 1,
                  src |-> vecs[b].src] >>
             \o TopK(q, vecs, left \ {b}, k - 1)

\* index.search(query_emb, k) for k > 0 and a query of the index's dimension:
\* k (score, position) pairs, best first, padded with (NoScore, -1); src (ghost)
\* is the text whose embedding scored
IndexSearch(ix, q, k) == TopK(q, ix.vecs, DOMAIN ix.vecs, k)

EmptyIndex(g)    == [gen |-> g, vecs |-> << >>]
EmptyMetadata(g) == [gen |-> g, items |-> << >>]

\* faiss.write_index / faiss.read_index (lines 115 and 412): the file holds the
\* dimension, the number of rows and the rows
FaissWrite(vecs) == [d |-> EMBED_DIM, ntotal |-> Len(vecs), codes |-> vecs]
FaissRead(file)  == SubSeq(file.codes, 1, file.ntotal)

\* json.dump / json.load of the metadata list (lines 117 and 414): an array of strings
JsonDump(items) == JList([i \in DOMAIN items |-> JStr(items[i])])
\* mutant of JsonLoad: the array comes back in reverse order
JsonLoadReversed(json) ==
    [i \in DOMAIN json.items |-> json.items[Len(json.items) + 1 - i].s]

JsonLoad(json)  == [i \in DOMAIN json.items |-> json.items[i].s]

NoFile == [st |-> "absent", gen |-> 0, data |-> << >>]

NoEmb  == [dim |-> 0, ang |-> 0, unit |-> FALSE, src |-> << >>]
NoReq  == [kind |-> "none", q |-> << >>, thr |-> 0, max |-> 0, malformed |-> FALSE,
           debug |-> FALSE]
NoGen  == [chk |-> -1, idx |-> -1, empty |-> FALSE, ntotal |-> -1]
\* no debug block in the response; no system prompt was built
NoDebug  == [present |-> FALSE, raw |-> << >>, withBest |-> FALSE, best |-> << >>]
NoPrompt == [head |-> "", lines |-> << >>]
NoResp == [kind |-> "none", results |-> << >>, reply |-> "", afterPublish |-> FALSE,
           debug |-> NoDebug, prompt |-> NoPrompt]

(***************************************************************************)
(* visualizer_bridge.py: the VDL2 file (/tmp/vdl2.json, one JSON object    *)
(* per line, appended to by dumpvdl2) and vdl2_file_listener.              *)
(***************************************************************************)
\* number of lines dumpvdl2 appends in a run of the model
MaxWrites == 4

\* line 268: len(processed_messages) > 1000.  The model keeps the comparison
\* and the clear() and lowers the number, so that a run reaches it.
PROCESSED_LIMIT == 2
\* line 42: deque(maxlen=100), lowered in the same way
ACARS_MAXLEN == 3

\* a line holding a VDL2 message received at second sec from address addr
Vdl2Line(sec, addr) == [kind |-> "vdl2", sec |-> sec, addr |-> addr]
\* a line json.loads rejects (line 286: skipped) and a JSON object whose
\* "vdl2" value is not an object, for which .get raises AttributeError
\* (line 260: caught at line 295, outside the loop)
OtherLine(kind) == [kind |-> kind, sec |-> 0, addr |-> ""]

Vdl2Lines   == { Vdl2Line(1, "A1"), Vdl2Line(1, "B2"), Vdl2Line(2, "A1") }
BridgeLines == Vdl2Lines \cup { OtherLine("malformed"), OtherLine("badshape") }

\* line 260: msg_id = f"{sec}_{addr}"
msg_id(line) == << line.sec, "_", line.addr >>
MsgIds == { msg_id(l) : l \in Vdl2Lines }

\* deque.append with maxlen (line 263): the oldest element falls out
DequeAppend(d, x) ==
    IF Len(d) >= ACARS_MAXLEN THEN Append(Tail(d), x) ELSE Append(d, x)

\* lines 268-269
Trim(processed) ==
    IF Cardinality(processed) > PROCESSED_LIMIT THEN {} ELSE processed

\* lines 249-287: the loop over the lines of the file, from line i on, on the
\* listener's state st; raised marks an exception that left the loop
RECURSIVE ProcessLines(_, _, _)
ProcessLines(lines, i, st) ==
    IF i > Len(lines) THEN st
    ELSE LET line == lines[i]
         IN  CASE line.kind = "malformed" -> ProcessLines(lines, i + 1, st)
               [] line.kind = "badshape"  -> [st EXCEPT !.raised = TRUE]
               [] OTHER ->
                    IF msg_id(line) \in st.processed_messages
                    THEN ProcessLines(lines, i + 1, st)
                    ELSE ProcessLines(lines, i + 1,
                           [st EXCEPT
                              !.recent_acars_messages = DequeAppend(@, line),
                              !.latest_vdl2_message = << line >>,
                              !.processed_messages = Trim(@ \cup {msg_id(line)}),
                              !.appended[msg_id(line)] = Min(@ + 1, 2)])

\* number of times the producer of /tmp/aircraft.json rewrites the file, and
\* number of values the file system's clock takes, in a run of the model
MaxDumps == 3
MaxClock == 3

\* what /tmp/aircraft.json holds: a JSON object with the keys "now" and
\* "aircraft" (mock_data_generator.py lines 197-203), ...
AircraftJson(now, aircraft) == [json |-> "object", now |-> now, aircraft |-> aircraft]
\* ... a JSON text that is not an object, for which .get raises (line 147), ...
NotAnObject    == [json |-> "array", now |-> 0, aircraft |-> << >>]
\* ... the file between open(..., 'w') and the end of json.dump, empty or a
\* prefix of the text, which json.load rejects (line 144), ...
Truncated      == [json |-> "truncated", now |-> 0, aircraft |-> << >>]
\* ... or no file
NoAircraftFile == [json |-> "absent", now |-> 0, aircraft |-> << >>]

\* the complete texts a producer leaves in the file
AircraftDumps ==
    { AircraftJson(1, << "A1" >>), AircraftJson(2, << "A1", "B2" >>), NotAnObject }

\* lines 41-43, 131-132 and 234-236: no file, nothing read and nothing
\* remembered.  appended counts, per message id, the appends of line 263 (2
\* stands for two or more).  clock is the time the file system stamps a
\* modification with.  mtime_reused records that a complete text was written
\* under the modification time file_listener remembers for another text.
NoBridge ==
    [file |-> << >>, mtime |-> 0, pc |-> "sleep", current_mtime |-> 0,
     last_mtime |-> 0, processed_messages |-> {},
     recent_acars_messages |-> << >>, latest_vdl2_message |-> << >>,
     appended |-> [id \in MsgIds |-> 0], raised |-> FALSE,
     aircraft_file |-> NoAircraftFile, adsb_mtime |-> 0, clock |-> 1,
     dumps |-> 0, writer_pc |-> "idle", adsb_pc |-> "sleep",
     adsb_current_mtime |-> 0, adsb_last_mtime |-> 0,
     latest_aircraft_data |-> AircraftJson(0, << >>),
     adsb_error |-> "none", mtime_reused |-> FALSE]

(***************************************************************************)
(* Initial state: the module has been imported (lines 21-22) and __main__  *)
(* is about to load the durable snapshot.  No durable file exists yet.     *)
(***************************************************************************)
Init ==
    /\ index = EmptyIndex(0)
    /\ metadata = EmptyMetadata(0)
    /\ diskIndex = NoFile
    /\ diskMeta = NoFile
    /\ mainPc = "load"
    /\ rbPc = "start"
    /\ summaries = << >>
    /\ embeddings_list = << >>
    /\ rbI = 1
    /\ cycle = 0
    /\ saveFailed = FALSE
    /\ published = FALSE
    /\ restarts = 0
    /\ feed = << 0, 0 >>
    /\ bridge = NoBridge
    /\ hPc = "idle"
    /\ hReq = NoReq
    /\ hEmb = NoEmb
    /\ hK = 0
    /\ hCands = << >>
    /\ hJ = 1
    /\ hResults = << >>
    /\ hGen = NoGen
    /\ hResp = NoResp

(***************************************************************************)
(* __main__, lines 408-421: load the durable snapshot when both files      *)
(* exist, then start the rebuild thread and the server.  index is assigned *)
(* before the metadata file is read, and one except clause covers both.    *)
(***************************************************************************)
StartupLoad ==
    /\ mainPc = "load"
    /\ mainPc' = "serving"
    /\ IF diskIndex.st # "absent" /\ diskMeta.st # "absent"
       THEN IF diskIndex.st = "corrupt"
            THEN UNCHANGED << index, metadata >>
            ELSE /\ index' = [gen |-> diskIndex.gen, vecs |-> FaissRead(diskIndex.data)]
                 /\ IF diskMeta.st = "corrupt"
                    THEN UNCHANGED metadata
                    ELSE metadata' = [gen |-> diskMeta.gen, items |-> JsonLoad(diskMeta.data)]
       ELSE UNCHANGED << index, metadata >>
    /\ published' = (metadata'.items # << >>)
    /\ UNCHANGED << diskVars, rbVars, restarts, feed, bridge, hVars >>

\* the process is stopped and launched again: memory is lost, the files stay
Restart ==
    /\ mainPc = "serving"
    /\ restarts < MaxRestarts
    /\ restarts' = restarts + 1
    /\ index' = EmptyIndex(0)
    /\ metadata' = EmptyMetadata(0)
    /\ mainPc' = "load"
    /\ rbPc' = "start"
    /\ summaries' = << >>
    /\ embeddings_list' = << >>
    /\ rbI' = 1
    /\ saveFailed' = FALSE
    /\ published' = FALSE
    /\ hPc' = "idle"
    /\ hReq' = NoReq
    /\ hEmb' = NoEmb
    /\ hK' = 0
    /\ hCands' = << >>
    /\ hJ' = 1
    /\ hResults' = << >>
    /\ hGen' = NoGen
    /\ hResp' = NoResp
    /\ UNCHANGED << diskVars, cycle, feed, bridge >>

(***************************************************************************)
(* rebuild_index, run by periodic_rebuild (lines 162-166) every 15 s.      *)
(***************************************************************************)
\* mutant of NoMessages: the early return of line 88 is never taken
NoMessagesNever(s) == FALSE

\* line 86: "if not summaries"
NoMessages(s) == s = << >>

\* lines 164-166 and 83-88: the next tick; extract, and return when nothing was extracted
RbExtract ==
    /\ mainPc = "serving"
    /\ rbPc \in {"start", "sleep"}
    /\ cycle < MaxCycles
    /\ cycle' = cycle + 1
    /\ saveFailed' = FALSE
    /\ embeddings_list' = << >>
    /\ rbI' = 1
    /\ \E a \in DOMAIN AdsbInputs, v \in DOMAIN Vdl2Inputs :
           summaries' = extract_semantic_messages(AdsbInputs[a], Vdl2Inputs[v])
    /\ rbPc' = IF NoMessages(summaries') THEN "sleep" ELSE "reset_index"
    /\ UNCHANGED << index, metadata, diskVars, mainPc, published, restarts, feed, bridge, hVars >>

\* line 91
RbResetIndex ==
    /\ rbPc = "reset_index"
    /\ index' = EmptyIndex(cycle)
    /\ rbPc' = "reset_meta"
    /\ UNCHANGED << metadata, diskVars, mainPc, summaries, embeddings_list, rbI,
                    cycle, saveFailed, published, restarts, feed, bridge, hVars >>

\* mutant of RbResetMeta: line 92 is left out, the list is kept and extended
RbResetMetaKeeps ==
    /\ rbPc = "reset_meta"
    /\ metadata' = [metadata EXCEPT !.gen = cycle]
    /\ embeddings_list' = << >>
    /\ rbI' = 1
    /\ rbPc' = "embed"
    /\ UNCHANGED << index, diskVars, mainPc, summaries, cycle, saveFailed,
                    published, restarts, feed, bridge, hVars >>

\* lines 92-93
RbResetMeta ==
    /\ rbPc = "reset_meta"
    /\ metadata' = EmptyMetadata(cycle)
    /\ embeddings_list' = << >>
    /\ rbI' = 1
    /\ rbPc' = "embed"
    /\ UNCHANGED << index, diskVars, mainPc, summaries, cycle, saveFailed,
                    published, restarts, feed, bridge, hVars >>

\* lines 96-102, one iteration: the embedding call raises, or answers with a vector
RbEmbed ==
    /\ rbPc = "embed"
    /\ rbI <= Len(summaries)
    /\ \/ UNCHANGED embeddings_list
       \/ \E d \in ProviderDims :
              embeddings_list' = Append(embeddings_list, get_embedding(summaries[rbI], d))
    /\ rbI' = rbI + 1
    /\ rbPc' = IF rbI' > Len(summaries) THEN "add" ELSE "embed"
    /\ UNCHANGED << index, metadata, diskVars, mainPc, summaries, cycle,
                    saveFailed, published, restarts, feed, bridge, hVars >>

\* np.array(embeddings_list) raises on rows of different lengths (line 106)
Inhomogeneous(embs) == \E i, j \in DOMAIN embs : embs[i].dim # embs[j].dim

\* index.add asserts that the rows have the index's dimension (line 110)
WrongDimension(embs) == \E i \in DOMAIN embs : embs[i].dim # EMBED_DIM

\* lines 106-107
EmbMatrix(embs) == [i \in DOMAIN embs |-> normalize_L2(embs[i])]

\* lines 104-110: nothing embedded: done; else build the matrix and add it to the
\* index.  An exception here is caught nowhere: it ends periodic_rebuild's thread.
RbAdd ==
    /\ rbPc = "add"
    /\ IF embeddings_list = << >>
       THEN /\ rbPc' = "sleep"
            /\ UNCHANGED index
       ELSE IF Inhomogeneous(embeddings_list) \/ WrongDimension(embeddings_list)
       THEN /\ rbPc' = "dead"
            /\ UNCHANGED index
       ELSE /\ index' = [index EXCEPT !.vecs = @ \o EmbMatrix(embeddings_list)]
            /\ rbPc' = "extend"
    /\ UNCHANGED << metadata, diskVars, mainPc, summaries, embeddings_list, rbI,
                    cycle, saveFailed, published, restarts, feed, bridge, hVars >>

\* line 111
RbExtend ==
    /\ rbPc = "extend"
    /\ metadata' = [metadata EXCEPT
                       !.items = @ \o SubSeq(summaries, 1, Len(embeddings_list))]
    /\ rbPc' = "write_index"
    /\ UNCHANGED << index, diskVars, mainPc, summaries, embeddings_list, rbI,
                    cycle, saveFailed, published, restarts, feed, bridge, hVars >>

\* what a write that raised leaves of the file: the old content, or a damaged file
AfterFailedWrite(old) == {old, [st |-> "corrupt", gen |-> 0, data |-> << >>]}

\* line 115: faiss.write_index; when it raises, line 116-117 are skipped (line 118)
RbWriteIndex ==
    /\ rbPc = "write_index"
    /\ \/ /\ diskIndex' = [st |-> "ok", gen |-> index.gen, data |-> FaissWrite(index.vecs)]
          /\ rbPc' = "write_meta"
          /\ UNCHANGED << saveFailed, published >>
       \/ /\ diskIndex' \in AfterFailedWrite(diskIndex)
          /\ saveFailed' = TRUE
          /\ rbPc' = "sleep"
          /\ published' = (published \/ metadata.items # << >>)
    /\ UNCHANGED << index, metadata, diskMeta, mainPc, summaries, embeddings_list,
                    rbI, cycle, restarts, feed, bridge, hVars >>

\* mutant of RbWriteMeta: the except clause withdraws the metadata it could not save
RbWriteMetaWithdraws ==
    /\ rbPc = "write_meta"
    /\ \/ /\ diskMeta' = [st |-> "ok", gen |-> metadata.gen, data |-> JsonDump(metadata.items),
                          mem |-> [vecs |-> index.vecs, items |-> metadata.items]]
          /\ UNCHANGED << saveFailed, metadata >>
       \/ /\ diskMeta' \in AfterFailedWrite(diskMeta)
          /\ saveFailed' = TRUE
          /\ metadata' = EmptyMetadata(cycle)
    /\ rbPc' = "sleep"
    /\ published' = (published \/ metadata.items # << >>)
    /\ UNCHANGED << index, diskIndex, mainPc, summaries, embeddings_list,
                    rbI, cycle, restarts, feed, bridge, hVars >>

\* lines 116-121: open(META_FILE, "w") and json.dump
RbWriteMeta ==
    /\ rbPc = "write_meta"
    /\ \/ /\ diskMeta' = [st |-> "ok", gen |-> metadata.gen, data |-> JsonDump(metadata.items),
                          mem |-> [vecs |-> index.vecs, items |-> metadata.items]]
          /\ UNCHANGED saveFailed
       \/ /\ diskMeta' \in AfterFailedWrite(diskMeta)
          /\ saveFailed' = TRUE
    /\ rbPc' = "sleep"
    /\ published' = (published \/ metadata.items # << >>)
    /\ UNCHANGED << index, metadata, diskIndex, mainPc, summaries, embeddings_list,
                    rbI, cycle, restarts, feed, bridge, hVars >>

Rebuild ==
    \/ RbExtract \/ RbResetIndex \/ RbResetMeta \/ RbEmbed
    \/ RbAdd \/ RbExtend \/ RbWriteIndex \/ RbWriteMeta

(***************************************************************************)
(* The request handlers ask_question (/ask) and chat_endpoint (/chat).     *)
(* One request is in flight at a time; it runs concurrently with the       *)
(* rebuild thread and reads the globals anew at every use.                 *)
(***************************************************************************)
Kinds      == {"ask", "chat"}
EmptyQuery == << "QUERY", "" >>
Queries    == { << "QUERY", "fuel status" >>, EmptyQuery }
Thresholds == {30}      \* threshold * 100
MaxInputs  == {1}       \* max_results / max_context

\* lines 238 and 189: how many candidates per wanted result
Multiplier(kind) == IF kind = "ask" THEN 3 ELSE 2

\* lst[idx] raises IndexError outside -len .. len-1
PyInRange(lst, idx) == -Len(lst) <= idx /\ idx < Len(lst)
PyIndex(lst, idx)   == IF idx >= 0 THEN lst[idx + 1] ELSE lst[Len(lst) + idx + 1]

\* lst[:n]
PySliceTo(lst, n) ==
    IF n >= 0 THEN SubSeq(lst, 1, Min(n, Len(lst)))
    ELSE SubSeq(lst, 1, IF Len(lst) + n > 0 THEN Len(lst) + n ELSE 0)

Response(kind, results, reply) ==
    [kind |-> kind, results |-> results, reply |-> reply, afterPublish |-> published,
     debug |-> NoDebug, prompt |-> NoPrompt]

\* return jsonify(...): the response leaves the handler
Respond(r) ==
    /\ hResp' = r
    /\ hPc' = "respond"

\* lines 222-230 (/ask) and 178-185 (/chat), once the parameters are parsed
HBegin(k, q, t, m, dbg) ==
    /\ hReq' = [kind |-> k, q |-> q, thr |-> t, max |-> m, malformed |-> FALSE,
                debug |-> dbg]
    /\ IF q = EmptyQuery
       THEN Respond(Response("missing_q", << >>, ""))
       ELSE IF metadata.items = << >>
       THEN IF k = "ask"
            THEN Respond(Response("no_indexed_data", << >>, ""))
            ELSE /\ hPc' = "finish"
                 /\ UNCHANGED hResp
       ELSE /\ hPc' = "embed"
            /\ UNCHANGED hResp
    /\ hGen' = [chk |-> metadata.gen, idx |-> -1, empty |-> metadata.items = << >>,
              ntotal |-> -1]
    /\ UNCHANGED << index, metadata, diskVars, mainPc, rbVars, published, restarts, feed, bridge,
                    hEmb, hK, hCands, hJ, hResults >>

\* lines 218-230 (/ask) and 174-185 (/chat), the parameters being numerals
HStart ==
    /\ mainPc = "serving"
    /\ hPc = "idle"
    /\ \E k \in Kinds, q \in Queries, t \in Thresholds, m \in MaxInputs :
          HBegin(k, q, t, m, FALSE)

\* the query-string texts of threshold and of max_results / max_context
RawThresholds == {"0.3", "0.0", "1.1", "-1.1", "abc"}
RawMaxes      == {"1", "2", "0", "-1", "many"}
WideQueries   == Queries \cup { << "QUERY", "acars messages" >> }

\* line 222: the debug flag is a parameter of /ask only
DebugFlags(k) == IF k = "ask" THEN BOOLEAN ELSE {FALSE}

\* float(s) and int(s) on these texts; a text outside the table raises ValueError.
\* Thresholds are kept times 100, as the scores are.
FloatTable == ("0.3" :> 30) @@ ("0.0" :> 0) @@ ("1.1" :> 110) @@ ("-1.1" :> -110)
IntTable   == ("1" :> 1) @@ ("2" :> 2) @@ ("0" :> 0) @@ ("-1" :> -1)
PyFloat(s) == IF s \in DOMAIN FloatTable THEN [ok |-> TRUE, val |-> FloatTable[s]]
                                         ELSE [ok |-> FALSE, val |-> 0]
PyInt(s)   == IF s \in DOMAIN IntTable   THEN [ok |-> TRUE, val |-> IntTable[s]]
                                         ELSE [ok |-> FALSE, val |-> 0]

\* lines 218-230 (/ask) and 174-185 (/chat), the parameters as the texts of the query
\* string: float() and int() (lines 219-220, 175-176) stand before the handler's try,
\* so a ValueError of theirs leaves the handler uncaught
HStartRaw ==
    /\ mainPc = "serving"
    /\ hPc = "idle"
    /\ \E k \in Kinds, q \in WideQueries, tr \in RawThresholds, mr \in RawMaxes :
       \E dbg \in DebugFlags(k) :
          IF PyFloat(tr).ok /\ PyInt(mr).ok
          THEN HBegin(k, q, PyFloat(tr).val, PyInt(mr).val, dbg)
          ELSE /\ hReq' = [kind |-> k, q |-> q, thr |-> 0, max |-> 0, malformed |-> TRUE,
                           debug |-> dbg]
               /\ Respond(Response("unhandled_exception", << >>, ""))
               /\ UNCHANGED << index, metadata, diskVars, mainPc, rbVars, published,
                               restarts, feed, bridge, hEmb, hK, hCands, hJ,
                               hResults, hGen >>

\* lines 234-235 and 186-187: the embedding call raises, or answers with a vector
HEmbed ==
    /\ hPc = "embed"
    /\ \/ /\ Respond(Response("error", << >>, ""))
          /\ UNCHANGED hEmb
       \/ /\ \E d \in ProviderDims : hEmb' = get_embedding(hReq.q, d)
          /\ hPc' = "search_k"
          /\ UNCHANGED hResp
    /\ UNCHANGED << index, metadata, diskVars, mainPc, rbVars, published, restarts, feed, bridge,
                    hReq, hK, hCands, hJ, hResults, hGen >>

\* line 238, and the second argument of line 189
HSearchK ==
    /\ hPc = "search_k"
    /\ hK' = Min(hReq.max * Multiplier(hReq.kind), Len(metadata.items))
    /\ hPc' = "search"
    /\ UNCHANGED << index, metadata, diskVars, mainPc, rbVars, published, restarts, feed, bridge,
                    hReq, hEmb, hCands, hJ, hResults, hGen, hResp >>

\* lines 239 and 189: index.search.  It asserts the query's dimension; for k = 0 it
\* raises or returns nothing, depending on the faiss release; k < 0 raises.
HSearch ==
    /\ hPc = "search"
    /\ IF hEmb.dim # EMBED_DIM \/ hK < 0
       THEN /\ Respond(Response("error", << >>, ""))
            /\ UNCHANGED << hCands, hGen >>
       ELSE IF hK = 0
       THEN /\ \/ Respond(Response("error", << >>, ""))
               \/ hPc' = "finish" /\ UNCHANGED hResp
            /\ UNCHANGED << hCands, hGen >>
       ELSE /\ hCands' = IndexSearch(index, hEmb, hK)
            /\ hGen' = [hGen EXCEPT !.idx = index.gen, !.ntotal = Len(index.vecs)]
            /\ hPc' = "filter"
            /\ UNCHANGED hResp
    /\ hJ' = 1
    /\ UNCHANGED << index, metadata, diskVars, mainPc, rbVars, published, restarts, feed, bridge,
                    hReq, hEmb, hK, hResults >>

\* the loop of lines 254 and 192 moves to its next candidate, or ends
NextCandidate ==
    /\ hJ' = hJ + 1
    /\ hPc' = IF hJ + 1 > Len(hCands) THEN "finish" ELSE "filter"

\* mutant of Passes: the threshold is an exclusive bound
PassesStrictly(c, thr) == c.idx < Len(metadata.items) /\ c.score > thr

\* mutant of Passes: a negative threshold is taken as 0
PassesClamped(c, thr) ==
    c.idx < Len(metadata.items) /\ c.score >= (IF thr < 0 THEN 0 ELSE thr)

\* mutant of Passes: with debug=true the threshold is not applied
PassesOrDebug(c, thr) == c.idx < Len(metadata.items) /\ (hReq.debug \/ c.score >= thr)

\* lines 255 and 193: "idx < len(metadata) and score >= threshold"
Passes(c, thr) == c.idx < Len(metadata.items) /\ c.score >= thr

HFilterTest ==
    /\ hPc = "filter"
    /\ IF Passes(hCands[hJ], hReq.thr)
       THEN hPc' = "lookup" /\ UNCHANGED hJ
       ELSE NextCandidate
    /\ UNCHANGED << index, metadata, diskVars, mainPc, rbVars, published, restarts, feed, bridge,
                    hReq, hEmb, hK, hCands, hResults, hGen, hResp >>

\* lines 256-260 and 194: metadata[idx] is read from the global as it is now
HLookup ==
    /\ hPc = "lookup"
    /\ LET c == hCands[hJ]
       IN  IF PyInRange(metadata.items, c.idx)
           THEN /\ hResults' = Append(hResults,
                       [text |-> PyIndex(metadata.items, c.idx), score |-> c.score,
                        idx |-> c.idx, vsrc |-> c.src, mgen |-> metadata.gen])
                /\ NextCandidate
                /\ UNCHANGED hResp
           ELSE /\ Respond(Response("error", << >>, ""))
                /\ UNCHANGED << hResults, hJ >>
    /\ UNCHANGED << index, metadata, diskVars, mainPc, rbVars, published, restarts, feed, bridge,
                    hReq, hEmb, hK, hCands, hGen >>

\* lines 145-160: the generation call answers, or raises and the error text is returned
ChatReplies == {"generated", "Chat model error"}

\* mutant of SystemPrompt: only the first context message is put in the prompt
SystemPromptFirstOnly(context_messages) ==
    IF context_messages # << >>
    THEN [head |-> "CURRENT AVIATION DATA",
          lines |-> << << "- ", context_messages[1] >> >>]
    ELSE [head |-> "no current aviation data available", lines |-> << >>]

\* lines 127-143: the system prompt of generate_chat_response, as its heading and
\* the lines of context_text
SystemPrompt(context_messages) ==
    IF context_messages # << >>
    THEN [head |-> "CURRENT AVIATION DATA",
          lines |-> [i \in DOMAIN context_messages |-> << "- ", context_messages[i] >>]]
    ELSE [head |-> "no current aviation data available", lines |-> << >>]

\* the "text" entries of a result list
Texts(results) == [i \in DOMAIN results |-> results[i].text]

\* lines 262-270: best_matches_regardless_of_threshold, from the first three candidates
BestMatches ==
    LET first3     == SubSeq(hCands, 1, Min(3, Len(hCands)))
        InRange(c) == c.idx < Len(metadata.items) /\ PyInRange(metadata.items, c.idx)
        usable     == SelectSeq(first3, InRange)
    IN  [i \in DOMAIN usable |->
            [text |-> PyIndex(metadata.items, usable[i].idx), score |-> usable[i].score]]

\* lines 241-251 and 262-270: debug_info of a request with debug=true
AskDebug ==
    [present  |-> TRUE,
     raw      |-> [i \in 1..Min(5, Len(hCands)) |-> << hCands[i].score, hCands[i].idx >>],
     withBest |-> hResults = << >>,
     best     |-> IF hResults = << >> THEN BestMatches ELSE << >>]

\* mutant of HFinish: an exception of the generation call leaves generate_chat_response
\* and is caught by the handler's except (line 210)
HFinishRaises ==
    /\ hPc = "finish"
    /\ LET kept == PySliceTo(hResults, hReq.max)
       IN  /\ hResults' = kept
           /\ IF hReq.kind = "ask"
              THEN Respond([Response(IF kept = << >> THEN "no_matches" ELSE "results",
                                     kept, "")
                               EXCEPT !.debug = IF hReq.debug THEN AskDebug ELSE NoDebug])
              ELSE \/ Respond([Response("chat", kept, "generated")
                                  EXCEPT !.prompt = SystemPrompt(Texts(kept))])
                   \/ Respond(Response("error", << >>, ""))
    /\ UNCHANGED << index, metadata, diskVars, mainPc, rbVars, published, restarts, feed, bridge,
                    hReq, hEmb, hK, hCands, hJ, hGen >>

\* mutant of HFinish: the cut of lines 273 and 196 is made on the global list
HFinishInPlace ==
    /\ hPc = "finish"
    /\ LET kept == PySliceTo(hResults, hReq.max)
       IN  /\ hResults' = kept
           /\ metadata' = [metadata EXCEPT !.items = PySliceTo(@, hReq.max)]
           /\ IF hReq.kind = "ask"
              THEN Respond([Response(IF kept = << >> THEN "no_matches" ELSE "results",
                                     kept, "")
                               EXCEPT !.debug = IF hReq.debug THEN AskDebug ELSE NoDebug])
              ELSE \E reply \in ChatReplies :
                      Respond([Response("chat", kept, reply)
                                  EXCEPT !.prompt = SystemPrompt(Texts(kept))])
    /\ UNCHANGED << index, diskVars, mainPc, rbVars, published, restarts, feed, bridge,
                    hReq, hEmb, hK, hCands, hJ, hGen >>

\* lines 262-309 (/ask) and 196-208 (/chat)
HFinish ==
    /\ hPc = "finish"
    /\ LET kept == PySliceTo(hResults, hReq.max)
       IN  /\ hResults' = kept
           /\ IF hReq.kind = "ask"
              THEN Respond([Response(IF kept = << >> THEN "no_matches" ELSE "results",
                                     kept, "")
                               EXCEPT !.debug = IF hReq.debug THEN AskDebug ELSE NoDebug])
              ELSE \E reply \in ChatReplies :
                      Respond([Response("chat", kept, reply)
                                  EXCEPT !.prompt = SystemPrompt(Texts(kept))])
    /\ UNCHANGED << index, metadata, diskVars, mainPc, rbVars, published, restarts, feed, bridge,
                    hReq, hEmb, hK, hCands, hJ, hGen >>

\* lines 317-370: /debug reports the sizes of the globals, tests the embedding of a
\* fixed text and, when there is data, a search of breadth min(3, len(metadata))
HDebug ==
    /\ mainPc = "serving"
    /\ hPc = "idle"
    /\ hReq' = [NoReq EXCEPT !.kind = "debug"]
    /\ \E embedded \in BOOLEAN :
          Respond([Response("debug", << >>, "") EXCEPT !.debug =
              [present  |-> TRUE,
               raw      |-> IF embedded /\ metadata.items # << >> /\ Len(index.vecs) > 0
                            THEN LET found == IndexSearch(index,
                                                  get_embedding(<< "QUERY", "aircraft" >>, EMBED_DIM),
                                                  Min(3, Len(metadata.items)))
                                 IN  [i \in DOMAIN found |-> << found[i].score, found[i].idx >>]
                            ELSE << >>,
               withBest |-> FALSE,
               best     |-> << >>]])
    /\ UNCHANGED << index, metadata, diskVars, mainPc, rbVars, published, restarts, feed, bridge,
                    hEmb, hK, hCands, hJ, hResults, hGen >>

\* the request is over
HReturn ==
    /\ hPc = "respond"
    /\ hPc' = "idle"
    /\ hReq' = NoReq
    /\ hEmb' = NoEmb
    /\ hK' = 0
    /\ hCands' = << >>
    /\ hJ' = 1
    /\ hResults' = << >>
    /\ hGen' = NoGen
    /\ hResp' = NoResp
    /\ UNCHANGED << index, metadata, diskVars, mainPc, rbVars, published, restarts, feed, bridge >>

Handler ==
    \/ HStart \/ HEmbed \/ HSearchK \/ HSearch
    \/ HFilterTest \/ HLookup \/ HFinish \/ HReturn

Next == StartupLoad \/ Restart \/ Rebuild \/ Handler

Spec == Init /\ [][Next]_vars

\* lines 234-273 as a function of the pair searched and of the request: the texts
\* and scores /ask returns when nothing changes under it and no call raises
RankedResults(ix, md, q, thr, max) ==
    LET k          == Min(max * Multiplier("ask"), Len(md.items))
        cands      == IF k <= 0 THEN << >>
                      ELSE IndexSearch(ix, get_embedding(q, EMBED_DIM), k)
        Reaches(c) == PyInRange(md.items, c.idx) /\ c.idx < Len(md.items) /\ c.score >= thr
        kept       == PySliceTo(SelectSeq(cands, Reaches), max)
    IN  [i \in DOMAIN kept |->
            [text |-> PyIndex(md.items, kept[i].idx), score |-> kept[i].score]]

(***************************************************************************)
(* The handlers on a snapshot at rest.  The rebuild thread sleeps between  *)
(* two cycles; the snapshot is what a cycle that embedded the first n      *)
(* summaries of Corpus leaves (lines 106-111), or the empty globals.       *)
(***************************************************************************)
MaxEntries == 4

Corpus == extract_semantic_messages(WideAdsb[7], WideVdl2[6])

\* lines 106-111 for the first n summaries of Corpus
SnapshotVecs(n) == EmbMatrix([i \in 1..n |-> get_embedding(Corpus[i], EMBED_DIM)])

InitQuery ==
    /\ \E n \in 0..MaxEntries :
          /\ index = [gen |-> 1, vecs |-> SnapshotVecs(n)]
          /\ metadata = [gen |-> 1, items |-> SubSeq(Corpus, 1, n)]
          /\ published = (n > 0)
          /\ diskIndex = IF n = 0 THEN NoFile
                         ELSE [st |-> "ok", gen |-> 1, data |-> FaissWrite(SnapshotVecs(n))]
          /\ diskMeta = IF n = 0 THEN NoFile
                        ELSE [st |-> "ok", gen |-> 1, data |-> JsonDump(SubSeq(Corpus, 1, n)),
                              mem |-> [vecs |-> SnapshotVecs(n), items |-> SubSeq(Corpus, 1, n)]]
    /\ mainPc = "serving"
    /\ rbPc = "sleep"
    /\ summaries = << >>
    /\ embeddings_list = << >>
    /\ rbI = 1
    /\ cycle = 1
    /\ saveFailed = FALSE
    /\ restarts = 0
    /\ feed = << 0, 0 >>
    /\ bridge = NoBridge
    /\ hPc = "idle"
    /\ hReq = NoReq
    /\ hEmb = NoEmb
    /\ hK = 0
    /\ hCands = << >>
    /\ hJ = 1
    /\ hResults = << >>
    /\ hGen = NoGen
    /\ hResp = NoResp

NextQuery ==
    \/ HStartRaw \/ HEmbed \/ HSearchK \/ HSearch
    \/ HFilterTest \/ HLookup \/ HFinish \/ HDebug \/ HReturn

SpecQuery == InitQuery /\ [][NextQuery]_vars

(***************************************************************************)
(* extract_semantic_messages as a function of the two feed files.          *)
(***************************************************************************)
InitExtract ==
    /\ feed \in (DOMAIN WideAdsb) \X (DOMAIN WideVdl2)
    /\ bridge = NoBridge
    /\ index = EmptyIndex(0)
    /\ metadata = EmptyMetadata(0)
    /\ diskIndex = NoFile
    /\ diskMeta = NoFile
    /\ mainPc = "serving"
    /\ rbPc = "start"
    /\ summaries = << >>
    /\ embeddings_list = << >>
    /\ rbI = 1
    /\ cycle = 0
    /\ saveFailed = FALSE
    /\ published = FALSE
    /\ restarts = 0
    /\ hPc = "idle"
    /\ hReq = NoReq
    /\ hEmb = NoEmb
    /\ hK = 0
    /\ hCands = << >>
    /\ hJ = 1
    /\ hResults = << >>
    /\ hGen = NoGen
    /\ hResp = NoResp

\* line 84: summaries = extract_semantic_messages()
Extract ==
    /\ rbPc = "start"
    /\ feed # << 0, 0 >>
    /\ summaries' = extract_semantic_messages(WideAdsb[feed[1]], WideVdl2[feed[2]])
    /\ rbPc' = "extracted"
    /\ cycle' = cycle + 1
    /\ UNCHANGED << index, metadata, diskVars, mainPc, embeddings_list, rbI,
                    saveFailed, published, restarts, feed, bridge, hVars >>

NextExtract == Extract

SpecExtract == InitExtract /\ [][NextExtract]_vars

(***************************************************************************)
(* vdl2_file_listener on a file dumpvdl2 appends to.                       *)
(***************************************************************************)
InitBridge ==
    /\ bridge = NoBridge
    /\ feed = << 0, 0 >>
    /\ index = EmptyIndex(0)
    /\ metadata = EmptyMetadata(0)
    /\ diskIndex = NoFile
    /\ diskMeta = NoFile
    /\ mainPc = "serving"
    /\ rbPc = "sleep"
    /\ summaries = << >>
    /\ embeddings_list = << >>
    /\ rbI = 1
    /\ cycle = 0
    /\ saveFailed = FALSE
    /\ published = FALSE
    /\ restarts = 0
    /\ hPc = "idle"
    /\ hReq = NoReq
    /\ hEmb = NoEmb
    /\ hK = 0
    /\ hCands = << >>
    /\ hJ = 1
    /\ hResults = << >>
    /\ hGen = NoGen
    /\ hResp = NoResp

aiVars == << index, metadata, diskVars, mainPc, rbVars, published, restarts,
             feed, hVars >>

\* dumpvdl2 appends one line to the file, which changes its modification time
Vdl2Write ==
    /\ bridge.mtime < MaxWrites
    /\ \E line \in BridgeLines :
          bridge' = [bridge EXCEPT !.file = Append(@, line), !.mtime = @ + 1]
    /\ UNCHANGED aiVars

\* lines 242-246: the file exists and its modification time is not the
\* remembered one
Vdl2Stat ==
    /\ bridge.pc = "sleep"
    /\ bridge.mtime # 0
    /\ bridge.mtime # bridge.last_mtime
    /\ bridge' = [bridge EXCEPT !.pc = "read", !.current_mtime = bridge.mtime]
    /\ UNCHANGED aiVars

\* lines 247-289 and 295-298: every line of the file is read; line 289 is
\* not reached when an exception left the loop
Vdl2Read ==
    /\ bridge.pc = "read"
    /\ LET st == ProcessLines(bridge.file, 1, [bridge EXCEPT !.raised = FALSE])
       IN  bridge' = [st EXCEPT
                        !.pc = "sleep",
                        !.last_mtime = IF st.raised THEN @ ELSE st.current_mtime]
    /\ UNCHANGED aiVars

vdl2_file_listener == Vdl2Stat \/ Vdl2Read

NextBridge == Vdl2Write \/ vdl2_file_listener

SpecBridge == InitBridge /\ [][NextBridge]_vars

(***************************************************************************)
(* file_listener on /tmp/aircraft.json, which a producer rewrites in place *)
(* as mock_data_generator.py does: open(..., 'w') empties the file and     *)
(* json.dump fills it.  Every modification stamps the file with the file   *)
(* system's clock, which may or may not have advanced since the last one.  *)
(***************************************************************************)
ClockTick ==
    /\ bridge.clock < MaxClock
    /\ bridge' = [bridge EXCEPT !.clock = @ + 1]
    /\ UNCHANGED aiVars

\* mock_data_generator.py line 209: open('/tmp/aircraft.json', 'w')
AdsbOpen ==
    /\ bridge.writer_pc = "idle"
    /\ bridge.dumps < MaxDumps
    /\ bridge' = [bridge EXCEPT !.writer_pc = "writing", !.dumps = @ + 1,
                                !.aircraft_file = Truncated,
                                !.adsb_mtime = bridge.clock]
    /\ UNCHANGED aiVars

\* mock_data_generator.py line 210: json.dump and the close of the file
AdsbDump ==
    /\ bridge.writer_pc = "writing"
    /\ \E text \in AircraftDumps :
          bridge' = [bridge EXCEPT
                       !.writer_pc = "idle",
                       !.aircraft_file = text,
                       !.adsb_mtime = bridge.clock,
                       !.mtime_reused = @ \/ (/\ bridge.clock = bridge.adsb_last_mtime
                                              /\ text # bridge.latest_aircraft_data)]
    /\ UNCHANGED aiVars

\* mock_data_generator.py line 279: os.remove('/tmp/aircraft.json')
AdsbRemove ==
    /\ bridge.writer_pc = "idle"
    /\ bridge.aircraft_file # NoAircraftFile
    /\ bridge' = [bridge EXCEPT !.aircraft_file = NoAircraftFile, !.adsb_mtime = 0]
    /\ UNCHANGED aiVars

\* lines 138-142: the file exists and its modification time is not the
\* remembered one
AdsbStat ==
    /\ bridge.adsb_pc = "sleep"
    /\ bridge.aircraft_file # NoAircraftFile
    /\ bridge.adsb_mtime # bridge.adsb_last_mtime
    /\ bridge' = [bridge EXCEPT !.adsb_pc = "read", !.adsb_error = "none",
                                !.adsb_current_mtime = bridge.adsb_mtime]
    /\ UNCHANGED aiVars

\* lines 152-155: the file does not exist
AdsbMissing ==
    /\ bridge.adsb_pc = "sleep"
    /\ bridge.aircraft_file = NoAircraftFile
    /\ bridge.adsb_last_mtime # 0
    /\ bridge' = [bridge EXCEPT !.adsb_last_mtime = 0]
    /\ UNCHANGED aiVars

\* lines 143-151 and 157-162: open and json.load raise before anything is
\* assigned; line 145 assigns what was parsed; line 147 raises for a text that
\* is not an object, and then line 151 is not reached
AdsbRead ==
    /\ bridge.adsb_pc = "read"
    /\ LET text == bridge.aircraft_file
       IN  bridge' =
             CASE text.json = "absent" ->
                    [bridge EXCEPT !.adsb_pc = "sleep", !.adsb_error = "other"]
               [] text.json = "truncated" ->
                    [bridge EXCEPT !.adsb_pc = "sleep", !.adsb_error = "decode"]
               [] text.json = "array" ->
                    [bridge EXCEPT !.adsb_pc = "sleep", !.adsb_error = "other",
                                   !.latest_aircraft_data = text]
               [] OTHER ->
                    [bridge EXCEPT !.adsb_pc = "sleep",
                                   !.latest_aircraft_data = text,
                                   !.adsb_last_mtime = bridge.adsb_current_mtime]
    /\ UNCHANGED aiVars

file_listener == AdsbStat \/ AdsbMissing \/ AdsbRead

NextAdsb == ClockTick \/ AdsbOpen \/ AdsbDump \/ AdsbRemove \/ file_listener

\* the loop of lines 136-162 never ends and sleeps one second per turn: a poll
\* that can be made is made
SpecAdsb == InitBridge /\ [][NextAdsb]_vars /\ WF_vars(file_listener)

(***************************************************************************)
(* Properties.                                                             *)
(***************************************************************************)
\* a rebuild_index call has run to completion and the thread sleeps (line 166)
CycleDone == rbPc = "sleep"

\* C1: the visible index and the visible metadata never belong to different
\* rebuild generations (two empty objects cannot be told apart and count as one
\* generation).
C1_PairOfOneGeneration ==
    \/ index.gen = metadata.gen
    \/ index.vecs = << >> /\ metadata.items = << >>

\* C2: every result a handler holds was looked up in the metadata of the very
\* index that was searched, so that its text is the summary paired with the
\* vector that produced its score.
C2_ResultsFromOnePair ==
    \A i \in DOMAIN hResults :
        \/ hResults[i].mgen = hGen.idx
        \/ hResults[i].text = hResults[i].vsrc

\* C3: after a cycle in which some embeddings failed and others succeeded,
\* metadata[i] is the text whose embedding is vector i, for every i.
C3_PartialFailureKeepsPairing ==
    (CycleDone /\ 0 < Len(embeddings_list) /\ Len(embeddings_list) < Len(summaries))
        => /\ Len(index.vecs) = Len(metadata.items)
           /\ \A i \in DOMAIN metadata.items : index.vecs[i].src = metadata.items[i]

\* C4: a cycle that extracted summaries but embedded none of them does not
\* replace a non-empty published snapshot by an empty one.
C4_AllFailedKeepsSnapshot ==
    (CycleDone /\ summaries # << >> /\ embeddings_list = << >> /\ published)
        => (index.vecs # << >> /\ metadata.items # << >>)

\* C5: a cycle whose extraction yields zero summaries returns at once and leaves
\* the visible index, the visible metadata and both durable files as they were.
C5_EmptyExtractionChangesNothing ==
    [][(cycle' = cycle + 1 /\ summaries' = << >>)
          => /\ rbPc' = "sleep"
             /\ index' = index
             /\ metadata' = metadata
             /\ diskIndex' = diskIndex
             /\ diskMeta' = diskMeta]_vars

\* C5 witness: a cycle has aborted on an empty extraction while a non-empty
\* snapshot was visible and stored.
C5_Witness ==
    /\ CycleDone
    /\ summaries = << >>
    /\ metadata.items # << >>
    /\ diskMeta.st = "ok"

\* C6: once a non-empty snapshot has been published, no /ask request is told
\* that no data is indexed.
C6_NoEmptyViewAfterPublish ==
    hResp.kind = "no_indexed_data" => ~hResp.afterPublish

\* C7: after every rebuild_index call that ran to completion the visible index
\* holds as many vectors as the visible metadata holds entries.
C7_CountsAgreeAfterRebuild ==
    CycleDone => Len(index.vecs) = Len(metadata.items)

\* C8: the periodic rebuild loop never stops.
C8_RebuildLoopNeverStops ==
    rbPc # "dead"

\* C9: after a cycle in which a durable write failed, the visible index and
\* metadata hold what the cycle built.
C9_SaveFailureStillPublishes ==
    (CycleDone /\ saveFailed)
        => /\ index.vecs = EmbMatrix(embeddings_list)
           /\ metadata.items = SubSeq(summaries, 1, Len(embeddings_list))
           /\ metadata.items # << >>
           /\ index.gen = cycle
           /\ metadata.gen = cycle

\* C9 witness: a write failed in the last cycle and a query has been answered
\* from what that cycle built.
C9_Witness ==
    /\ CycleDone
    /\ saveFailed
    /\ hResp.kind = "results"
    /\ hGen.idx = cycle
    /\ \A i \in DOMAIN hResp.results : hResp.results[i].mgen = cycle

\* the vectors are, position by position, the embeddings of the texts
PairedContent(vecs, items) ==
    /\ Len(vecs) = Len(items)
    /\ \A i \in DOMAIN items : vecs[i].src = items[i]

\* C10: at the end of every cycle the index file and the metadata file hold the
\* vectors and the summaries of the same rebuild generation (files of two
\* generations whose contents happen to pair are not told apart).
C10_DurablePairOfOneGeneration ==
    (CycleDone /\ diskIndex.st = "ok" /\ diskMeta.st = "ok")
        => \/ diskIndex.gen = diskMeta.gen
           \/ PairedContent(FaissRead(diskIndex.data), JsonLoad(diskMeta.data))

\* an /ask request that carried a query text has its response ready
AskAnswered == hPc = "respond" /\ hReq.kind = "ask" /\ hReq.q # EmptyQuery /\ ~hReq.malformed

\* ... and no call it made (embedding, search) raised on the way
AskServed == AskAnswered /\ hResp.kind # "error"

\* the startup half of C11: at the moment the rebuild thread is started, readable
\* durable files are installed, and with a file absent the globals are empty
LoadedBeforeFirstCycle ==
    (mainPc = "serving" /\ rbPc = "start") =>
        /\ (diskIndex.st = "ok" /\ diskMeta.st = "ok")
              => /\ index.vecs = FaissRead(diskIndex.data)
                 /\ metadata.items = JsonLoad(diskMeta.data)
        /\ (diskIndex.st = "absent" \/ diskMeta.st = "absent")
              => (index.vecs = << >> /\ metadata.items = << >>)

\* C11 as stated: a durable snapshot is installed before the first rebuild cycle
\* begins; without one the visible snapshot is empty and every /ask query is
\* answered "no indexed data" until the first rebuild cycle that indexes at least
\* one summary has completed.
C11_NoDataUntilFirstCycleCompleted ==
    /\ LoadedBeforeFirstCycle
    /\ (AskServed /\ ~hResp.afterPublish) => hResp.kind = "no_indexed_data"

\* C12: a query against a snapshot with zero entries is answered with the
\* "no indexed data" indicator (which the no-match response never is), by /ask
\* and by the retrieval step of /chat alike.
C12_EmptySnapshotIsTold ==
    (hPc = "respond" /\ hReq.q # EmptyQuery /\ ~hReq.malformed /\ hGen.empty)
        => hResp.kind = "no_indexed_data"

\* C13: an /ask with max_results <= 0 against a non-empty snapshot, its query
\* embedded, is answered with an empty result and no error, for every threshold.
C13_NonPositiveMaxGivesEmpty ==
    (AskAnswered /\ hReq.max <= 0 /\ ~hGen.empty /\ hEmb.dim = EMBED_DIM)
        => (hResp.kind = "no_matches" /\ hResp.results = << >>)

\* the candidates of the index search that reach the threshold, cut to max_results
ExpectedResults ==
    LET Reaches(c) == c.score >= hReq.thr
        passing    == SelectSeq(hCands, Reaches)
    IN  SubSeq(passing, 1, Min(hReq.max, Len(passing)))

\* C14: for max_results > 0 the results of a search are exactly the candidates of
\* the index search whose score is >= threshold (equality included), in the
\* index's descending order, cut to the first max_results: at most max_results
\* results, none below the threshold.
C14_ResultsAreFilteredCandidates ==
    (AskServed /\ hReq.max > 0 /\ ~hGen.empty)
        => /\ Len(hResp.results) = Len(ExpectedResults)
           /\ \A i \in DOMAIN hResp.results :
                 /\ hResp.results[i].idx = ExpectedResults[i].idx
                 /\ hResp.results[i].score = ExpectedResults[i].score
                 /\ hResp.results[i].text = metadata.items[ExpectedResults[i].idx + 1]
                 /\ hResp.results[i].score >= hReq.thr
                 /\ \A j \in DOMAIN hResp.results :
                       i < j => hResp.results[i].score >= hResp.results[j].score
           /\ Len(hResp.results) <= hReq.max
           /\ hResp.kind = (IF hResp.results = << >> THEN "no_matches" ELSE "results")

\* a candidate whose score equals the threshold is the only result
C14_Witness ==
    /\ AskServed /\ hReq.max > 0
    /\ Len(hResp.results) = 1
    /\ hResp.results[1].score = hReq.thr
    /\ Len(hCands) > 1

\* C15: with a threshold above 1.0 a search returns an empty result set, for every
\* snapshot and query (all vectors being unit-normalized).
C15_ThresholdAboveOneGivesEmpty ==
    (AskServed /\ hReq.thr > Cos100(0)) => hResp.results = << >>

\* threshold 1.1 against a snapshot holding a vector of the query's own direction
C15_Witness ==
    /\ AskServed /\ hReq.thr > Cos100(0)
    /\ hResp.kind = "no_matches"
    /\ \E i \in DOMAIN hCands : hCands[i].score = Cos100(0)

\* C16: with a threshold below -1.0 and max_results > 0 a search returns exactly
\* min(max_results, number of indexed entries) results.
C16_ThresholdBelowMinusOneGivesAll ==
    (AskServed /\ hReq.thr < -Cos100(0) /\ hReq.max > 0)
        => Len(hResp.results) = Min(hReq.max, Len(metadata.items))

\* max_results entries come back, one of negative score, out of a larger snapshot
C16_Witness ==
    /\ AskServed /\ hReq.thr < -Cos100(0)
    /\ Len(hResp.results) = hReq.max
    /\ Len(metadata.items) > hReq.max
    /\ \E i \in DOMAIN hResp.results : hResp.results[i].score < 0

\* C20: every query that fails (no data indexed, embedding failure, malformed
\* parameters) is answered with a structured error response and never with an
\* unhandled exception.
C20_FailuresAreStructured ==
    (hPc = "respond" /\ hResp.kind \notin {"results", "no_matches", "chat", "debug"})
        => hResp.kind \in {"missing_q", "no_indexed_data", "error"}

\* extract_semantic_messages has returned
Extracted == rbPc = "extracted"

\* a source is missing, empty or malformed: no file, no text, no JSON, or JSON
\* that has not the top-level shape of its feed
Unreadable(file) == file.st = "missing" \/ file.raw # "json"
AdsbFailed(file) ==
    \/ Unreadable(file)
    \/ file.json.kind # "obj"
    \/ Get(file.json, "aircraft", JList(<< >>)).kind # "list"
Vdl2Failed(file) == Unreadable(file) \/ file.json.kind \notin {"obj", "list"}

\* the entries of a source that did not fail
AdsbEntries(file) ==
    IF AdsbFailed(file) THEN << >> ELSE Get(file.json, "aircraft", JList(<< >>)).items
Vdl2Entries(file) ==
    IF Vdl2Failed(file) THEN << >>
    ELSE IF file.json.kind = "obj" THEN << file.json >> ELSE file.json.items

AllAdsbValid(file) ==
    \A i \in DOMAIN AdsbEntries(file) : ~AdsbEntryRaises(AdsbEntries(file)[i])
AllVdl2Valid(file) ==
    \A i \in DOMAIN Vdl2Entries(file) : ~Vdl2EntryRaises(Vdl2Entries(file)[i])

\* the summaries of one source in the returned list
OfSource(tag) == LET From(t) == t[1] = tag IN SelectSeq(summaries, From)

C18_EveryEntryYieldsSummary ==
    Extracted =>
        /\ Len(OfSource("ADS-B")) = Len(AdsbEntries(WideAdsb[feed[1]]))
        /\ Len(OfSource("ACARS")) = Len(Vdl2Entries(WideVdl2[feed[2]]))

\* the six fields of a position report, in the order of the summary
AdsbFields == << "flight", "hex", "alt_baro", "gs", "lat", "lon" >>

\* C19: every position-report entry yields one summary in which each of the six
\* fields that the entry lacks reads "unknown" or "?", never the empty string.
C19_AbsentFieldsArePlaceholders ==
    (Extracted /\ ~AdsbFailed(WideAdsb[feed[1]]) /\ AllAdsbValid(WideAdsb[feed[1]]))
        => LET entries == AdsbEntries(WideAdsb[feed[1]])
           IN  /\ Len(OfSource("ADS-B")) = Len(entries)
               /\ \A i \in DOMAIN entries : \A p \in DOMAIN AdsbFields :
                     ~HasKey(entries[i], AdsbFields[p])
                         => OfSource("ADS-B")[i][p + 1] \in {"unknown", "?"}

\* C21: a request never writes: every step of /ask, /chat or /debug, on every
\* path, leaves the index, the metadata list and the durable files unchanged.
C21_HandlersWriteNothing ==
    [][(hVars' # hVars /\ mainPc = "serving" /\ mainPc' = "serving")
          => UNCHANGED << index, metadata, diskIndex, diskMeta >>]_vars

\* a request has ended on its error path with a snapshot in memory and on disk
C21_Witness ==
    /\ hPc = "respond" /\ hResp.kind = "error"
    /\ metadata.items # << >> /\ index.vecs # << >>
    /\ diskIndex.st = "ok" /\ diskMeta.st = "ok"

\* C23: the chat prompt is built from the retrieval results alone: one bulleted
\* line per result, in result order, holding the result's summary; with no
\* result, the fixed text that no current data is available and no summary.
C23_PromptFromResults ==
    (hPc = "respond" /\ hResp.kind = "chat")
        => IF hResp.results # << >>
           THEN /\ hResp.prompt.head = "CURRENT AVIATION DATA"
                /\ Len(hResp.prompt.lines) = Len(hResp.results)
                /\ \A i \in DOMAIN hResp.results :
                      hResp.prompt.lines[i] = << "- ", hResp.results[i].text >>
           ELSE /\ hResp.prompt.head = "no current aviation data available"
                /\ hResp.prompt.lines = << >>

\* a chat answered from two context messages
C23_Witness ==
    /\ hPc = "respond" /\ hResp.kind = "chat"
    /\ Len(hResp.results) = 2
    /\ hResp.results[1].text # hResp.results[2].text

\* C24: a chat request that reaches the generation call is answered with a chat
\* response whatever the generation provider does: its failure is the error
\* string in the response field, and the context reported is the retrieved one.
C24_GenerationFailureIsAReply ==
    [][(hPc = "finish" /\ hReq.kind = "chat")
          => /\ hResp'.kind = "chat"
             /\ hResp'.reply \in {"generated", "Chat model error"}
             /\ hResp'.results = PySliceTo(hResults, hReq.max)]_vars

\* the generation call failed for a request that had retrieved context
C24_Witness ==
    /\ hPc = "respond" /\ hResp.kind = "chat"
    /\ hResp.reply = "Chat model error"
    /\ hResp.results # << >>

\* C27: the result list of /ask is a function of the snapshot, query, threshold
\* and max_results in which the debug flag has no part; debug=true adds the debug
\* block, and the best unfiltered candidates are in it only when the filtered
\* set is empty.
C27_DebugDoesNotRank ==
    (AskServed /\ ~hGen.empty)
        => /\ [i \in DOMAIN hResp.results |->
                  [text |-> hResp.results[i].text, score |-> hResp.results[i].score]]
                = RankedResults(index, metadata, hReq.q, hReq.thr, hReq.max)
           /\ hResp.debug.present = hReq.debug
           /\ hResp.debug.withBest = (hReq.debug /\ hResp.results = << >>)
           /\ ~hResp.debug.withBest => hResp.debug.best = << >>

\* a debug=true request with results, and so without the best unfiltered candidates
C27_Witness ==
    /\ AskServed /\ hReq.debug
    /\ Len(hResp.results) = 2
    /\ hResp.debug.present /\ ~hResp.debug.withBest
    /\ Len(hResp.debug.raw) > 2

\* serving begins: __main__ has loaded and the rebuild thread has not yet run
ServingBegins == mainPc = "serving" /\ rbPc = "start"

C25_LookupPositionsValid ==
    hPc = "lookup"
        => (0 <= hCands[hJ].idx /\ hCands[hJ].idx < Len(metadata.items))

\* C26: the breadth asked of the index never exceeds the number of vectors held
\* by the index that is searched.
C26_BreadthWithinIndex ==
    hGen.ntotal # -1 => hK <= hGen.ntotal

\* C28: after a cycle in which every summary was embedded, the metadata list is
\* the list of summaries extracted in that cycle, with nothing carried over
\* from an earlier cycle, and the index holds one vector per summary.
C28_FullRebuild ==
    (CycleDone /\ summaries # << >> /\ Len(embeddings_list) = Len(summaries))
        => /\ metadata.items = summaries
           /\ Len(index.vecs) = Len(summaries)
           /\ PairedContent(index.vecs, metadata.items)

\* a second cycle has replaced what an earlier cycle left in memory and on disk
C28_Witness ==
    /\ CycleDone /\ cycle >= 2
    /\ Len(summaries) = 2 /\ Len(embeddings_list) = 2
    /\ diskMeta.st = "ok" /\ diskMeta.gen < cycle /\ diskMeta.gen > 0

\* C29: when serving begins, the index and the metadata are both the loaded
\* content or both empty, so that they have the same number of entries.
C29_LoadIsAllOrNothing ==
    ServingBegins
        => /\ \/ index.vecs = << >> /\ metadata.items = << >>
              \/ /\ diskIndex.st = "ok" /\ diskMeta.st = "ok"
                 /\ index.vecs = FaissRead(diskIndex.data)
                 /\ metadata.items = JsonLoad(diskMeta.data)
           /\ Len(index.vecs) = Len(metadata.items)

\* C30: in vdl2_file_listener a message is never appended twice to
\* recent_acars_messages: whatever the file modifications, every message id
\* (seconds and source address) is appended at most once, also after the set
\* of processed ids has been trimmed.
C30_AppendedAtMostOnce ==
    \A id \in MsgIds : bridge.appended[id] <= 1

\* a read of file_listener ended in a JSON decode error
DecodeFailed ==
    /\ bridge.adsb_pc = "read" /\ bridge'.adsb_pc = "sleep"
    /\ bridge'.adsb_error = "decode"

\* a read that fails leaves latest_aircraft_data and the remembered
\* modification time as they were, and the version it saw is not remembered
FailedReadChangesNothing ==
    [][DecodeFailed
         => /\ bridge'.latest_aircraft_data = bridge.latest_aircraft_data
            /\ bridge'.adsb_last_mtime = bridge.adsb_last_mtime
            /\ bridge'.adsb_last_mtime # bridge.adsb_current_mtime]_vars

\* once the file holds a complete text for good, latest_aircraft_data is that text
StableFileIsServed ==
    \A text \in AircraftDumps :
        <>[](bridge.aircraft_file = text) => <>[](bridge.latest_aircraft_data = text)

\* C31: in file_listener a read that fails (file caught in the middle of a
\* write, JSON decode error) leaves latest_aircraft_data and the remembered
\* modification time unchanged, so that the same version of the file is tried
\* again at the next poll; and once the content of the file is valid and no
\* longer changes, latest_aircraft_data eventually equals it.
C31_FailedReadRetriedAndStableFileServed ==
    FailedReadChangesNothing /\ StableFileIsServed

\* the second half of C31 for the runs in which no complete text was written
\* under the modification time remembered for another text
StableFileIsServedUnlessMtimeReused ==
    [](~bridge.mtime_reused) => StableFileIsServed

====
